---- MODULE Spec2Model ----
(***************************************************************************)
(* SysMon (sysmon.cpp): the sampling-and-delta engine and the interaction  *)
(* loop of the ncurses system monitor.                                     *)
(*                                                                         *)
(* Numbers.  A C++ double is modelled by the exact rational it is computed *)
(* from, kept as a normalised pair <<numerator, denominator>> with a       *)
(* positive denominator (Rat).  unsigned long long arithmetic is modelled  *)
(* modulo UllMod: TLC's integers are 32 bits wide, so the 64-bit width of  *)
(* the source is scaled down; a subtraction that wraps in the source wraps *)
(* in the model.                                                           *)
(*                                                                         *)
(* Time.  elapsed stands for (now - last_refresh) at the refresh gate, in  *)
(* whole seconds and saturated at refresh_sec: the gate only compares it   *)
(* with refresh_sec.                                                       *)
(***************************************************************************)
EXTENDS Integers, Sequences, FiniteSets, TLC

VARIABLES
    pc,                 \* position of main: "start", "input", "gate", "done"
    argv1,              \* argv[1] as its characters, <<>> when argc < 2; main
                        \* reads it once, before the loop: it is kept until
                        \* the first iteration of the loop and then dropped
    refresh_sec,        \* main: int refresh_sec
    body_h,             \* getmaxy(body): height of the body window
    sort_mode,          \* main: SortMode sort_mode
    selected,           \* main: int selected
    page_offset,        \* main: int page_offset
    old_procs,          \* main: map<int, ProcInfo> old_procs
    cur_procs,          \* main: map<int, ProcInfo> cur_procs
    old_cpu_fields,     \* main: vector<unsigned long long> old_cpu_fields
    cur_cpu_fields,     \* main: vector<unsigned long long> cur_cpu_fields
    old_total_cpu,      \* main: unsigned long long old_total_cpu
    mem_total_kb,       \* main: unsigned long long mem_total_kb
    total_cpu_percent,  \* main: double total_cpu_percent
    running,            \* main: bool running
    elapsed,            \* now - last_refresh, whole seconds, saturated
    screen,             \* what draw_header / draw_processes last drew
    dialog,             \* the kill dialogs of this loop iteration: for each
                        \* the pid in its prompt, the key read and the
                        \* kill(pid, sig) calls made
    windows,            \* the ncurses windows that exist (newwin .. delwin)
    exit_code,          \* the value main returned, -1 while it runs
    refreshed,          \* the loop is between the end of a refresh cycle and
                        \* the getch() of the next iteration
    stat_ok,            \* what read_total_cpu returned in the refresh cycle
                        \* that just ended (main discards it); TRUE otherwise
    gone                \* the pids of the previous snapshot that the refresh
                        \* cycle that just ended did not find; {} otherwise

vars == <<pc, argv1, refresh_sec, body_h, sort_mode, selected, page_offset,
          old_procs, cur_procs, old_cpu_fields, cur_cpu_fields,
          old_total_cpu, mem_total_kb, total_cpu_percent, running,
          elapsed, screen, dialog, windows, exit_code, refreshed, stat_ok,
          gone>>

----------------------------------------------------------------------------
(* Bounds of the model and the inputs the environment can supply.          *)

\* selected is an int that KEY_DOWN / KEY_NPAGE increment without limit;
\* the model stops incrementing at MaxSelected.
MaxSelected == 2

\* seconds that can pass between two evaluations of the refresh gate
MaxStall == 1

\* pids that /proc can list
PIDS == {1, 2}

\* utime+stime (clock ticks) that /proc/[pid]/stat can report for each pid
TickVals == [pid \in PIDS |-> IF pid = 1 THEN {5, 25} ELSE {25}]

\* resident set size (KB) that /proc/[pid]/stat reports for each pid
RssVals == [pid \in PIDS |-> IF pid = 1 THEN {800} ELSE {1600}]

\* contents of the first line of /proc/stat: user nice system idle iowait
CpuLines == { <<300, 0, 100, 500, 100>>, <<320, 0, 110, 560, 110>> }

\* MemTotal values (KB) of /proc/meminfo
MemTotals == {8000}

\* heights of the body window (terminal rows - header_h)
BodyHeights == {4}

\* command lines: <<>> is "no argument" (argc < 2), otherwise argv[1] as its
\* characters
Args == { <<>>, <<"x">>, <<"0">>, <<"1">>, <<"2">>, <<"-", "1">>, <<" ", "2">>,
          <<"1", "x">>, <<"+", "2">>, <<"-">>, <<" ">>, <<"2", ".", "9">>,
          <<"9", "9", "9", "9", "9", "9", "9", "9", "9", "9">>,
          <<"-", "2", "1", "4", "7", "4", "8", "3", "6", "4", "8">>,
          <<"2", "1", "4", "7", "4", "8", "3", "6", "4", "8">> }

\* unsigned long long arithmetic is modulo UllMod
UllMod == 4096

Min(a, b) == IF a < b THEN a ELSE b
Max(a, b) == IF a > b THEN a ELSE b

----------------------------------------------------------------------------
(* double values as exact rationals                                        *)

Abs(n) == IF n < 0 THEN -n ELSE n

RECURSIVE Gcd(_, _)
Gcd(a, b) == IF b = 0 THEN a ELSE Gcd(b, a % b)

\* the double n/d, d > 0
Rat(n, d) ==
    LET g == Gcd(Abs(n), d)
    IN  <<n \div g, d \div g>>

Zero == Rat(0, 1)
RatEq(a, b) == a[1] * b[2] = b[1] * a[2]
RatLess(a, b) == a[1] * b[2] < b[1] * a[2]
RatLeq(a, b) == a[1] * b[2] <= b[1] * a[2]

\* a - b on unsigned long long
USub(a, b) == (a - b + UllMod) % UllMod

----------------------------------------------------------------------------
(* main: argument parsing                                                  *)

DigitVal == [c \in {"0", "1", "2", "3", "4", "5", "6", "7", "8", "9"} |->
               CASE c = "0" -> 0 [] c = "1" -> 1 [] c = "2" -> 2 [] c = "3" -> 3
                 [] c = "4" -> 4 [] c = "5" -> 5 [] c = "6" -> 6 [] c = "7" -> 7
                 [] c = "8" -> 8 [] c = "9" -> 9]

IsDigit(c) == c \in DOMAIN DigitVal

RECURSIVE SkipSpace(_)
SkipSpace(s) == IF s # <<>> /\ Head(s) = " " THEN SkipSpace(Tail(s)) ELSE s

\* INT_MAX
IntMax == 2147483647

\* value of the longest prefix of digits of s, continuing from acc; -1 when
\* it is above INT_MAX + 1, -2 when it is INT_MAX + 1
RECURSIVE DigitsValue(_, _)
DigitsValue(s, acc) ==
    IF s # <<>> /\ IsDigit(Head(s))
    THEN LET d == DigitVal[Head(s)]
         IN  IF acc < 0 THEN DigitsValue(Tail(s), -1)
             ELSE IF acc < IntMax \div 10 \/ (acc = IntMax \div 10 /\ d <= IntMax % 10)
                  THEN DigitsValue(Tail(s), 10 * acc + d)
             ELSE IF acc = IntMax \div 10 /\ d = (IntMax % 10) + 1
                  THEN DigitsValue(Tail(s), -2)
             ELSE DigitsValue(Tail(s), -1)
    ELSE acc

\* std::stoi: leading white space, an optional sign, then digits, what
\* follows the digits being ignored; it throws std::invalid_argument when no
\* digit follows and std::out_of_range when the number is not an int
Stoi(str) ==
    LET s1  == SkipSpace(str)
        neg == s1 # <<>> /\ Head(s1) = "-"
        s2  == IF s1 # <<>> /\ Head(s1) \in {"-", "+"} THEN Tail(s1) ELSE s1
        mag == DigitsValue(s2, 0)
    IN  IF s2 = <<>> \/ ~IsDigit(Head(s2))
        THEN [throws |-> TRUE, value |-> 0]
        ELSE IF mag = -1 \/ (mag = -2 /\ ~neg)
        THEN [throws |-> TRUE, value |-> 0]
        ELSE [throws |-> FALSE,
              value  |-> IF mag = -2 THEN (0 - IntMax) - 1
                         ELSE IF neg THEN 0 - mag ELSE mag]

DefaultRefresh == 2

\* argument parsing without "if (refresh_sec < 1) refresh_sec = 1"
ParseRefresh_NoClamp(arg) ==
    IF arg = <<>>
    THEN DefaultRefresh
    ELSE LET v == Stoi(arg)
         IN  IF v.throws THEN DefaultRefresh ELSE v.value

\* refresh_sec after the argument parsing of main; arg = <<>>: argc < 2
ParseRefresh(arg) ==
    IF arg = <<>>
    THEN DefaultRefresh
    ELSE LET v == Stoi(arg)
         IN  IF v.throws THEN DefaultRefresh
             ELSE IF v.value < 1 THEN 1 ELSE v.value

----------------------------------------------------------------------------
(* the /proc readers                                                       *)

\* total_cpu_time: the sum of the fields
RECURSIVE total_cpu_time(_)
total_cpu_time(vals) ==
    IF vals = <<>> THEN 0
    ELSE (Head(vals) + total_cpu_time(Tail(vals))) % UllMod

\* a cpu line that can follow the line seen: the counters of the kernel
\* never decrease
NotBefore(line, seen) ==
    seen = <<>> \/ \A i \in 1..Len(seen) : line[i] >= seen[i]

\* what a read of /proc/stat can give after the lines seen0 and seen1 were
\* read: the file cannot be opened or its first word is not "cpu" (opened =
\* FALSE), or the numbers of the cpu line
CpuOutcomes(seen0, seen1) ==
    {[opened |-> FALSE, line |-> <<>>]} \cup
    [opened : {TRUE},
     line   : {l \in CpuLines : NotBefore(l, seen0) /\ NotBefore(l, seen1)}]

\* read_total_cpu: fields after the call; fields is cleared and refilled
\* only once the word "cpu" has been read
read_total_cpu(fields, outcome) ==
    IF outcome.opened THEN outcome.line ELSE fields

\* what a read of /proc/meminfo can give: the file cannot be opened, or the
\* MemTotal value
MemOutcomes ==
    {[opened |-> FALSE, total |-> 0]} \cup [opened : {TRUE}, total : MemTotals]

\* at startup /proc/meminfo is taken to be readable
StartMemOutcomes == {o \in MemOutcomes : o.opened}

\* read_meminfo: mem_total_kb after the call; it is reset and reassigned
\* only once the file is open
read_meminfo(mem_total, outcome) ==
    IF outcome.opened THEN outcome.total ELSE mem_total

\* what /proc can show of the processes: for each listed pid whose stat
\* file was readable, its utime+stime and its resident set size (a pid that
\* vanished before read_proc_times is simply not in the table)
ProcTables ==
    UNION { {t \in [S -> [total_time : UNION {TickVals[p] : p \in PIDS},
                          mem_kb     : UNION {RssVals[p] : p \in PIDS}]] :
                \A p \in S : /\ t[p].total_time \in TickVals[p]
                             /\ t[p].mem_kb \in RssVals[p]} : S \in SUBSET PIDS }

\* the double 100.0 * mem_kb / mem_total_kb, or 0.0 when mem_total_kb is 0
MemPercent(mem_kb, mem_total) ==
    IF mem_total > 0 THEN Rat(100 * mem_kb, mem_total) ELSE Zero

\* collect_processes: procs after the call (user and name, which are only
\* displayed, are left out)
collect_processes(table, mem_total) ==
    [pid \in DOMAIN table |->
        [pid         |-> pid,
         cpu_percent |-> Zero,
         mem_kb      |-> table[pid].mem_kb,
         mem_percent |-> MemPercent(table[pid].mem_kb, mem_total),
         total_time  |-> table[pid].total_time]]

----------------------------------------------------------------------------
(* the rate engine                                                         *)

\* update_cpu_percent: total_delta, replaced by 1 when it is 0
TotalDelta(old_total_cpu_, new_total_cpu) ==
    LET total_delta == USub(new_total_cpu, old_total_cpu_)
    IN  IF total_delta = 0 THEN 1 ELSE total_delta

\* DeltaProc without the test for a counter that went backward
DeltaProc_Underflow(oldp, npi) ==
    LET old_total_proc ==
            IF npi.pid \in DOMAIN oldp THEN oldp[npi.pid].total_time ELSE 0
    IN  USub(npi.total_time, old_total_proc)

\* update_cpu_percent: delta_proc of one entry of newp
DeltaProc(oldp, npi) ==
    LET old_total_proc ==
            IF npi.pid \in DOMAIN oldp THEN oldp[npi.pid].total_time ELSE 0
    IN  IF npi.total_time >= old_total_proc
        THEN npi.total_time - old_total_proc
        ELSE 0

\* update_cpu_percent: newp after the call
update_cpu_percent(oldp, newp, old_total_cpu_, new_total_cpu) ==
    LET total_delta == TotalDelta(old_total_cpu_, new_total_cpu)
    IN  [pid \in DOMAIN newp |->
            [newp[pid] EXCEPT
                !.cpu_percent = Rat(100 * DeltaProc(oldp, newp[pid]), total_delta)]]

\* IdleOf counting the idle field alone
IdleOf_NoIowait(fields) ==
    IF Len(fields) >= 4 THEN fields[4] ELSE 0

\* main: idle (field 3) plus iowait (field 4) of a cpu line, 0 when the line
\* has fewer than four fields
IdleOf(fields) ==
    IF Len(fields) >= 4
    THEN (fields[4] + (IF Len(fields) > 4 THEN fields[5] ELSE 0)) % UllMod
    ELSE 0

\* main: total_cpu_percent = 100.0 * (1.0 - idle_delta / total_delta)
SystemCpuPercent(old_fields, cur_fields, old_total_cpu_, cur_total_cpu) ==
    LET idle_delta   == USub(IdleOf(cur_fields), IdleOf(old_fields))
        total_delta0 == USub(cur_total_cpu, old_total_cpu_)
        total_delta  == IF total_delta0 = 0 THEN 1 ELSE total_delta0
    IN  Rat(100 * (total_delta - idle_delta), total_delta)

----------------------------------------------------------------------------
(* the view                                                                *)

SortModes == {"CPU", "MEM", "PID"}

\* Before without the tie-break by pid
Before_NoTieBreak(a, b, mode) ==
    CASE mode = "CPU" -> RatLess(b.cpu_percent, a.cpu_percent)
      [] mode = "MEM" -> RatLess(b.mem_percent, a.mem_percent)
      [] OTHER -> a.pid < b.pid

\* sort_processes: the comparator of each mode (a goes before b)
Before(a, b, mode) ==
    CASE mode = "CPU" ->
            IF RatEq(a.cpu_percent, b.cpu_percent) THEN a.pid < b.pid
            ELSE RatLess(b.cpu_percent, a.cpu_percent)
      [] mode = "MEM" ->
            IF RatEq(a.mem_percent, b.mem_percent) THEN a.pid < b.pid
            ELSE RatLess(b.mem_percent, a.mem_percent)
      [] OTHER -> a.pid < b.pid

\* vec with p inserted before the first entry that p goes before
RECURSIVE InsertSorted(_, _, _)
InsertSorted(p, vec, mode) ==
    IF vec = <<>> THEN <<p>>
    ELSE IF Before(p, Head(vec), mode) THEN <<p>> \o vec
    ELSE <<Head(vec)>> \o InsertSorted(p, Tail(vec), mode)

\* sort_processes: vec after std::sort with the comparator of mode
RECURSIVE sort_processes(_, _)
sort_processes(vec, mode) ==
    IF vec = <<>> THEN <<>>
    ELSE InsertSorted(Head(vec), sort_processes(Tail(vec), mode), mode)

\* main: "for (auto &kv : procs) pv.push_back(kv.second)": the entries of a
\* std::map in ascending key order
RECURSIVE MapToVector(_)
MapToVector(procs) ==
    IF DOMAIN procs = {} THEN <<>>
    ELSE LET lo == CHOOSE p \in DOMAIN procs : \A q \in DOMAIN procs : p <= q
         IN  <<procs[lo]>> \o MapToVector([q \in DOMAIN procs \ {lo} |-> procs[q]])

\* main: the vector view of a refresh cycle: the entries of cur_procs, their
\* mem_percent recomputed, sorted by the mode
BuildView(procs, mem_total, mode) ==
    LET pv == MapToVector(procs)
        pm == [i \in 1..Len(pv) |->
                 [pv[i] EXCEPT !.mem_percent = MemPercent(pv[i].mem_kb, mem_total)]]
    IN  sort_processes(pm, mode)

\* main: "adjust selected bounds"
ClampSelected(sel, size) ==
    LET s1 == IF sel >= size THEN Max(0, size - 1) ELSE sel
    IN  IF s1 < 0 THEN 0 ELSE s1

\* main (refresh cycle): body_rows = getmaxy(body) - 3, at least 1
BodyRows(h) == IF h - 3 < 1 THEN 1 ELSE h - 3

\* AdjustPageOffset that only ever scrolls up
AdjustPageOffset_NoScrollDown(sel, off, h) ==
    IF sel < off THEN sel ELSE off

\* main: "adjust page offset to keep selected visible"
AdjustPageOffset(sel, off, h) ==
    IF sel < off THEN sel
    ELSE IF sel >= off + BodyRows(h) THEN sel - BodyRows(h) + 1
    ELSE off

\* draw_processes: the indices of procs whose rows are printed (maxlines =
\* rows - 3 lines from page_offset on) and those printed with A_REVERSE
draw_processes(procs, sel, off, h) ==
    LET maxlines == h - 3
        rows == {off + i : i \in 0..(maxlines - 1)} \cap 0..(Len(procs) - 1)
    IN  [procs       |-> procs,
         rows        |-> rows,
         highlighted |-> {idx \in rows : idx = sel}]

\* draw_header: the refresh interval, the sort mode and the CPU percentage
\* printed (the memory figures, read again from /proc/meminfo, are left out)
draw_header(cpu_percent, rsec, mode) ==
    [cpu |-> cpu_percent, refresh |-> rsec, sort |-> mode]

----------------------------------------------------------------------------
(* the kill dialog                                                         *)

\* keys the user can press in the confirmation dialog
DialogKeys == {"t", "T", "k", "K", "c", "x"}

\* confirm_kill that knows the lower-case keys only
confirm_kill_LowerOnly(pid, ch, delivered) ==
    LET do_kill == ch \in {"t", "k"}
        sig     == IF ch = "t" THEN "SIGTERM" ELSE IF ch = "k" THEN "SIGKILL" ELSE "0"
    IN  [pid   |-> pid,
         ch    |-> ch,
         calls |-> IF do_kill
                   THEN <<[pid |-> pid, sig |-> sig, ok |-> delivered]>>
                   ELSE <<>>,
         ret   |-> do_kill /\ delivered]

\* confirm_kill: the pid its prompt names, the key read by wgetch(dlg), the
\* kill(pid, sig) calls it makes and its return value; delivered is the
\* outcome of kill
confirm_kill(pid, ch, delivered) ==
    LET do_kill == ch \in {"t", "T", "k", "K"}
        sig     == IF ch \in {"t", "T"} THEN "SIGTERM"
                   ELSE IF ch \in {"k", "K"} THEN "SIGKILL"
                   ELSE "0"
    IN  [pid   |-> pid,
         ch    |-> ch,
         calls |-> IF do_kill
                   THEN <<[pid |-> pid, sig |-> sig, ok |-> delivered]>>
                   ELSE <<>>,
         ret   |-> do_kill /\ delivered]

\* a kill or 'r' handler that leaves last_refresh at the last refresh
ForceRefresh_Not(rsec) == 0

\* main ('r', and after confirm_kill): last_refresh = now - seconds(refresh_sec)
ForceRefresh(rsec) == rsec

\* main (KEY_NPAGE, KEY_PPAGE): max(1, body_rows), body_rows = getmaxy(body) - 3
PageStep(h) == Max(1, h - 3)

----------------------------------------------------------------------------
(* the state machine                                                       *)

\* main is entered: the command line is given, the terminal has its size,
\* and the locals of main have the values of their initialisers
Init ==
    /\ pc = "start"
    /\ argv1 \in Args
    /\ refresh_sec = DefaultRefresh
    /\ body_h \in BodyHeights
    /\ sort_mode = "CPU"
    /\ selected = 0
    /\ page_offset = 0
    /\ old_procs = << >>
    /\ cur_procs = << >>
    /\ old_cpu_fields = <<>>
    /\ cur_cpu_fields = <<>>
    /\ old_total_cpu = 0
    /\ mem_total_kb = 0
    /\ total_cpu_percent = Zero
    /\ running = TRUE
    /\ elapsed = 0
    /\ screen = [drawn  |-> FALSE,
                 header |-> draw_header(Zero, DefaultRefresh, "CPU"),
                 body   |-> draw_processes(<<>>, 0, 0, body_h)]
    /\ dialog = <<>>
    /\ windows = {}
    /\ exit_code = -1
    /\ refreshed = FALSE
    /\ stat_ok = TRUE
    /\ gone = {}

\* main up to the loop: the argument is parsed, the windows are created,
\* /proc/stat and /proc/meminfo are read a first time, and last_refresh is
\* set refresh_sec seconds back
Start ==
    /\ pc = "start"
    /\ refresh_sec' = ParseRefresh(argv1)
    /\ UNCHANGED argv1
    /\ windows' = {"header", "body"}
    /\ old_cpu_fields' \in {read_total_cpu(<<>>, o) : o \in CpuOutcomes(<<>>, <<>>)}
    /\ old_total_cpu' = total_cpu_time(old_cpu_fields')
    /\ mem_total_kb' \in {read_meminfo(0, o) : o \in StartMemOutcomes}
    /\ elapsed' = refresh_sec'
    /\ screen' = [drawn  |-> FALSE,
                  header |-> draw_header(Zero, refresh_sec', "CPU"),
                  body   |-> draw_processes(<<>>, 0, 0, body_h)]
    /\ pc' = "input"
    /\ UNCHANGED <<body_h, sort_mode, selected, page_offset, old_procs, cur_procs,
                   cur_cpu_fields, total_cpu_percent, running, dialog, exit_code,
                   refreshed, stat_ok, gone>>

\* what no input handler but quit touches
UNCHANGED_data ==
    UNCHANGED <<refresh_sec, body_h, old_procs, cur_procs, old_cpu_fields,
                cur_cpu_fields, old_total_cpu, mem_total_kb, total_cpu_percent,
                screen, windows, exit_code>>

\* getch() returns ERR: no key is waiting
PollNone ==
    /\ pc = "input"
    /\ refreshed' = FALSE
    /\ stat_ok' = TRUE
    /\ gone' = {}
    /\ argv1' = <<>>
    /\ pc' = "gate"
    /\ UNCHANGED <<sort_mode, selected, page_offset, running, elapsed, dialog>>
    /\ UNCHANGED_data

\* 'q' that sets running = false without the break: the iteration goes on
\* to the refresh gate
KeyQuit_NoBreak ==
    /\ pc = "input"
    /\ refreshed' = FALSE
    /\ stat_ok' = TRUE
    /\ gone' = {}
    /\ argv1' = <<>>
    /\ running' = FALSE
    /\ pc' = "gate"
    /\ UNCHANGED <<sort_mode, selected, page_offset, elapsed, dialog>>
    /\ UNCHANGED_data

\* 'q' / 'Q': running = false; break; then the cleanup (delwin, delwin,
\* endwin) and return 0.  The locals of main end with it: they are given
\* the values they had at the start.
KeyQuit ==
    /\ pc = "input"
    /\ refreshed' = FALSE
    /\ stat_ok' = TRUE
    /\ gone' = {}
    /\ argv1' = <<>>
    /\ running' = FALSE
    /\ windows' = {}
    /\ exit_code' = 0
    /\ pc' = "done"
    /\ sort_mode' = "CPU"
    /\ selected' = 0
    /\ page_offset' = 0
    /\ old_procs' = << >>
    /\ cur_procs' = << >>
    /\ old_cpu_fields' = <<>>
    /\ cur_cpu_fields' = <<>>
    /\ old_total_cpu' = 0
    /\ mem_total_kb' = 0
    /\ total_cpu_percent' = Zero
    /\ elapsed' = 0
    /\ screen' = [drawn  |-> FALSE,
                  header |-> draw_header(Zero, refresh_sec, "CPU"),
                  body   |-> draw_processes(<<>>, 0, 0, body_h)]
    /\ dialog' = <<>>
    /\ UNCHANGED <<refresh_sec, body_h>>

\* KEY_UP
KeyUp ==
    /\ pc = "input"
    /\ refreshed' = FALSE
    /\ stat_ok' = TRUE
    /\ gone' = {}
    /\ argv1' = <<>>
    /\ selected' = IF selected > 0 THEN selected - 1 ELSE selected
    /\ page_offset' = IF selected' < page_offset THEN selected' ELSE page_offset
    /\ pc' = "gate"
    /\ UNCHANGED <<sort_mode, running, elapsed, dialog>>
    /\ UNCHANGED_data

\* KEY_DOWN
KeyDown ==
    /\ pc = "input"
    /\ refreshed' = FALSE
    /\ stat_ok' = TRUE
    /\ gone' = {}
    /\ argv1' = <<>>
    /\ selected + 1 <= MaxSelected
    /\ selected' = selected + 1
    /\ pc' = "gate"
    /\ UNCHANGED <<sort_mode, page_offset, running, elapsed, dialog>>
    /\ UNCHANGED_data

\* KEY_NPAGE
KeyPageDown ==
    /\ pc = "input"
    /\ refreshed' = FALSE
    /\ stat_ok' = TRUE
    /\ gone' = {}
    /\ argv1' = <<>>
    /\ selected + PageStep(body_h) <= MaxSelected
    /\ selected' = selected + PageStep(body_h)
    /\ pc' = "gate"
    /\ UNCHANGED <<sort_mode, page_offset, running, elapsed, dialog>>
    /\ UNCHANGED_data

\* KEY_PPAGE
KeyPageUp ==
    /\ pc = "input"
    /\ refreshed' = FALSE
    /\ stat_ok' = TRUE
    /\ gone' = {}
    /\ argv1' = <<>>
    /\ selected' = IF selected - PageStep(body_h) < 0 THEN 0
                   ELSE selected - PageStep(body_h)
    /\ pc' = "gate"
    /\ UNCHANGED <<sort_mode, page_offset, running, elapsed, dialog>>
    /\ UNCHANGED_data

\* a toggle between CPU and MEM only
NextSortMode_TwoWay(mode) ==
    IF mode = "CPU" THEN "MEM" ELSE "CPU"

\* main ('s'): the next sort mode
NextSortMode(mode) ==
    IF mode = "CPU" THEN "MEM" ELSE IF mode = "MEM" THEN "PID" ELSE "CPU"

\* 's' / 'S'
KeySort ==
    /\ pc = "input"
    /\ refreshed' = FALSE
    /\ stat_ok' = TRUE
    /\ gone' = {}
    /\ argv1' = <<>>
    /\ sort_mode' = NextSortMode(sort_mode)
    /\ pc' = "gate"
    /\ UNCHANGED <<selected, page_offset, running, elapsed, dialog>>
    /\ UNCHANGED_data

\* 'r' / 'R'
KeyRefresh ==
    /\ pc = "input"
    /\ refreshed' = FALSE
    /\ stat_ok' = TRUE
    /\ gone' = {}
    /\ argv1' = <<>>
    /\ elapsed' = ForceRefresh(refresh_sec)
    /\ pc' = "gate"
    /\ UNCHANGED <<sort_mode, selected, page_offset, running, dialog>>
    /\ UNCHANGED_data

\* main ('k'): the vector in which the selected pid is looked up
KillView(procs, mode) == sort_processes(MapToVector(procs), mode)

\* main ('k'): whether selected is an index of the vector
KillIndexValid(sel, pv) == sel >= 0 /\ sel < Len(pv)

\* a 'k' handler that forces the refresh outside the test of the index
KeyKill_ForceAlways ==
    /\ pc = "input"
    /\ refreshed' = FALSE
    /\ stat_ok' = TRUE
    /\ gone' = {}
    /\ argv1' = <<>>
    /\ LET pv == KillView(cur_procs, sort_mode)
       IN  IF KillIndexValid(selected, pv)
           THEN \E ch \in DialogKeys, delivered \in BOOLEAN :
                   dialog' = <<confirm_kill(pv[selected + 1].pid, ch, delivered)>>
           ELSE UNCHANGED dialog
    /\ elapsed' = ForceRefresh(refresh_sec)
    /\ pc' = "gate"
    /\ UNCHANGED <<sort_mode, selected, page_offset, running>>
    /\ UNCHANGED_data

\* 'k' / 'K'
KeyKill ==
    /\ pc = "input"
    /\ refreshed' = FALSE
    /\ stat_ok' = TRUE
    /\ gone' = {}
    /\ argv1' = <<>>
    /\ LET pv == KillView(cur_procs, sort_mode)
       IN  IF KillIndexValid(selected, pv)
           THEN \E ch \in DialogKeys, delivered \in BOOLEAN :
                   /\ dialog' = <<confirm_kill(pv[selected + 1].pid, ch, delivered)>>
                   /\ elapsed' = ForceRefresh(refresh_sec)
           ELSE UNCHANGED <<dialog, elapsed>>
    /\ pc' = "gate"
    /\ UNCHANGED <<sort_mode, selected, page_offset, running>>
    /\ UNCHANGED_data

\* any other key
KeyOther ==
    /\ pc = "input"
    /\ refreshed' = FALSE
    /\ stat_ok' = TRUE
    /\ gone' = {}
    /\ argv1' = <<>>
    /\ pc' = "gate"
    /\ UNCHANGED <<sort_mode, selected, page_offset, running, elapsed, dialog>>
    /\ UNCHANGED_data

\* now - last_refresh when the gate is evaluated, adv seconds after the
\* previous evaluation
Now(adv) == Min(elapsed + adv, refresh_sec)

\* a gate that needs more than the interval to have passed
GateOpen_Strict(e, rsec) == e > rsec

\* main: "if (now - last_refresh >= seconds(refresh_sec))"
GateOpen(e, rsec) == e >= rsec

\* a handoff that adds the current entries to the previous map
HandoffProcs_Merge(oldp, curp) ==
    [pid \in DOMAIN oldp \cup DOMAIN curp |->
        IF pid \in DOMAIN curp THEN curp[pid] ELSE oldp[pid]]

\* main: "old_procs = cur_procs": the previous map after the handoff
HandoffProcs(oldp, curp) == curp

\* the refresh cycle
Refresh ==
    /\ pc = "gate"
    /\ {adv \in 0..MaxStall : GateOpen(Now(adv), refresh_sec)} # {}
    /\ \E stat \in CpuOutcomes(old_cpu_fields, cur_cpu_fields),
          mem_total \in {read_meminfo(mem_total_kb, o) : o \in MemOutcomes},
          table \in ProcTables :
         \* read CPU totals, read meminfo
         /\ cur_cpu_fields' = read_total_cpu(cur_cpu_fields, stat)
         /\ stat_ok' = stat.opened
         /\ mem_total_kb' = mem_total
         \* collect processes, compute per-process cpu percent
         /\ cur_procs' = update_cpu_percent(old_procs,
                             collect_processes(table, mem_total_kb'),
                             old_total_cpu, total_cpu_time(cur_cpu_fields'))
         /\ total_cpu_percent' =
                SystemCpuPercent(old_cpu_fields, cur_cpu_fields',
                                 old_total_cpu, total_cpu_time(cur_cpu_fields'))
         \* prepare the vector view, sort, adjust selected and page offset, draw
         /\ \E pv \in {BuildView(cur_procs', mem_total_kb', sort_mode)} :
              /\ selected' = ClampSelected(selected, Len(pv))
              /\ page_offset' = AdjustPageOffset(selected', page_offset, body_h)
              /\ screen' = [drawn  |-> TRUE,
                            header |-> draw_header(total_cpu_percent', refresh_sec,
                                                   sort_mode),
                            body   |-> draw_processes(pv, selected', page_offset',
                                                      body_h)]
         \* swap old <-> cur
         /\ gone' = DOMAIN old_procs \ DOMAIN cur_procs'
         /\ old_procs' = HandoffProcs(old_procs, cur_procs')
         /\ old_cpu_fields' = cur_cpu_fields'
         /\ old_total_cpu' = total_cpu_time(old_cpu_fields')
    /\ elapsed' = 0
    /\ dialog' = <<>>
    /\ refreshed' = TRUE
    /\ pc' = "input"
    /\ UNCHANGED <<argv1, refresh_sec, body_h, sort_mode, running, windows,
                   exit_code>>

\* an iteration that, the gate being closed, sleeps for the refresh interval
SkipRefresh_SleepInterval ==
    /\ pc = "gate"
    /\ \E adv \in 0..MaxStall : ~GateOpen(Now(adv), refresh_sec)
    /\ elapsed' = Min(elapsed + refresh_sec, refresh_sec)
    /\ dialog' = <<>>
    /\ refreshed' = FALSE
    /\ stat_ok' = TRUE
    /\ gone' = {}
    /\ argv1' = <<>>
    /\ pc' = "input"
    /\ UNCHANGED <<sort_mode, selected, page_offset, running>>
    /\ UNCHANGED_data

\* the gate is closed: the iteration only sleeps
SkipRefresh ==
    /\ pc = "gate"
    /\ \E adv \in 0..MaxStall :
         /\ ~GateOpen(Now(adv), refresh_sec)
         /\ elapsed' = Now(adv)
    /\ dialog' = <<>>
    /\ refreshed' = FALSE
    /\ stat_ok' = TRUE
    /\ gone' = {}
    /\ argv1' = <<>>
    /\ pc' = "input"
    /\ UNCHANGED <<sort_mode, selected, page_offset, running>>
    /\ UNCHANGED_data

Next ==
    \/ Start
    \/ PollNone
    \/ KeyQuit
    \/ KeyUp
    \/ KeyDown
    \/ KeyPageDown
    \/ KeyPageUp
    \/ KeySort
    \/ KeyRefresh
    \/ KeyKill
    \/ KeyOther
    \/ Refresh
    \/ SkipRefresh

Spec == Init /\ [][Next]_vars

----------------------------------------------------------------------------
(* The claims.                                                             *)

\* a step that is a refresh cycle
RefreshStep == pc = "gate" /\ refreshed'

\* the list last drawn by draw_processes
Rendered == screen.body.procs

\* pids of both the previous and the current snapshot of a refresh step
InBoth == DOMAIN cur_procs' \cap DOMAIN old_procs

\* the plain sum of a sequence of numbers
RECURSIVE SumOf(_)
SumOf(seq) == IF seq = <<>> THEN 0 ELSE Head(seq) + SumOf(Tail(seq))

\* idle + wait of the counters of a snapshot
IdlePlusWait(fields) ==
    (IF Len(fields) >= 4 THEN fields[4] ELSE 0) + (IF Len(fields) >= 5 THEN fields[5] ELSE 0)

\* the delta of the sum of all categories over a refresh step, on unsigned
\* counters, replaced by 1 when it is 0
StepTotalDelta ==
    LET d == USub(SumOf(cur_cpu_fields') % UllMod, SumOf(old_cpu_fields) % UllMod)
    IN  IF d = 0 THEN 1 ELSE d

\* the delta of idle + wait over a refresh step, on unsigned counters
StepIdleDelta ==
    USub(IdlePlusWait(cur_cpu_fields') % UllMod, IdlePlusWait(old_cpu_fields) % UllMod)

\* no counter of the current cpu line is below that of the previous one
StepNonDecreasing ==
    \/ old_cpu_fields = <<>>
    \/ /\ Len(cur_cpu_fields') = Len(old_cpu_fields)
       /\ \A i \in 1..Len(old_cpu_fields) : cur_cpu_fields'[i] >= old_cpu_fields[i]

\* C1: when the kill command is handled, the pid in the prompt and in every
\* kill call is the pid of the entry at index selected of the list last
\* rendered.
C1_KillTargetsRenderedEntry ==
    [][(pc = "input" /\ dialog' # <<>>) =>
         /\ selected < Len(Rendered)
         /\ dialog'[1].pid = Rendered[selected + 1].pid
         /\ \A i \in 1..Len(dialog'[1].calls) :
                dialog'[1].calls[i].pid = Rendered[selected + 1].pid]_vars

\* C2: in every refresh cycle a process whose pid is absent from the
\* previous snapshot is reported with cpu_percent = 0.
C2_NewPidReportsZero ==
    [][RefreshStep =>
         \A pid \in DOMAIN cur_procs' \ DOMAIN old_procs :
             cur_procs'[pid].cpu_percent = Zero]_vars

\* C3: the cpu_percent of every process of the view is at least 0 and at
\* most 100.
C3_CpuPercentWithin0And100 ==
    \A pid \in DOMAIN cur_procs :
        /\ RatLeq(Zero, cur_procs[pid].cpu_percent)
        /\ RatLeq(cur_procs[pid].cpu_percent, Rat(100, 1))

\* C4: when the previous and the current snapshot have equal cumulative
\* counters, the system CPU percent and the cpu_percent of every process
\* present in both are 0.
C4_EqualCountersGiveZero ==
    [][(/\ RefreshStep
        /\ cur_cpu_fields' = old_cpu_fields
        /\ \A pid \in InBoth :
               cur_procs'[pid].total_time = old_procs[pid].total_time) =>
         /\ total_cpu_percent' = Zero
         /\ \A pid \in InBoth : cur_procs'[pid].cpu_percent = Zero]_vars

\* C5: after a move-up, move-down, page-up or page-down event selected lies
\* in [0, N-1], N the length of the list last rendered (0 when it is empty).
C5_SelectionStaysInList ==
    [][(KeyUp \/ KeyDown \/ KeyPageUp \/ KeyPageDown) =>
         /\ selected' >= 0
         /\ selected' <= Max(0, Len(Rendered) - 1)]_vars

\* C6: at the end of every refresh cycle selected is within [0, max(0, N-1)]
\* for the new list of length N and page_offset <= selected < page_offset +
\* visible rows (at least 1, else the height of the body less 3); the row of
\* the selected entry is among the rows drawn, and drawn highlighted.
C6_RefreshKeepsSelectionVisible ==
    [][RefreshStep =>
         LET N       == Len(screen'.body.procs)
             visible == Max(1, body_h - 3)
         IN  /\ selected' >= 0
             /\ selected' <= Max(0, N - 1)
             /\ page_offset' <= selected'
             /\ selected' < page_offset' + visible
             /\ (N > 0 /\ body_h - 3 >= 1) =>
                   /\ selected' \in screen'.body.rows
                   /\ screen'.body.highlighted = {selected'}]_vars

\* a refresh cycle that followed a sort toggle drew two entries with the
\* last one selected, scrolled into the one visible row
C6_Witness ==
    /\ pc = "input"
    /\ refreshed
    /\ screen.drawn
    /\ screen.header.sort = "MEM"
    /\ Len(Rendered) = 2
    /\ selected = 1
    /\ page_offset = 1
    /\ screen.body.highlighted = {1}

\* a kill whose signal could not be delivered
KillFailed(d) == d # <<>> /\ d[1].calls # <<>> /\ ~d[1].calls[1].ok

\* C7: if signal delivery fails during a kill command then, when the command
\* completes, sort_mode, selected, page_offset and the previous snapshot are
\* as before, the loop is still running, and the refresh gate of the same
\* iteration is open: the step that follows is a refresh cycle.
C7_FailedKillKeepsStateAndForcesRefresh ==
    /\ [][(pc = "input" /\ KillFailed(dialog')) =>
            /\ sort_mode' = sort_mode
            /\ selected' = selected
            /\ page_offset' = page_offset
            /\ old_procs' = old_procs
            /\ old_cpu_fields' = old_cpu_fields
            /\ old_total_cpu' = old_total_cpu
            /\ running'
            /\ pc' = "gate"
            /\ GateOpen(elapsed', refresh_sec)]_vars
    /\ [][(pc = "gate" /\ KillFailed(dialog)) => RefreshStep]_vars

\* the kill command has completed with a failed delivery
C7_Witness ==
    /\ pc = "gate"
    /\ KillFailed(dialog)
    /\ running

\* C8: in the kill dialog kill is called exactly once, with SIGTERM for t/T
\* and SIGKILL for k/K and for the pid of the prompt, and not at all for any
\* other key.
C8_DialogKeyDecidesSignal ==
    \A i \in 1..Len(dialog) :
        LET d == dialog[i]
        IN  /\ d.ch \in {"t", "T"} =>
                 /\ Len(d.calls) = 1
                 /\ d.calls[1].sig = "SIGTERM"
                 /\ d.calls[1].pid = d.pid
            /\ d.ch \in {"k", "K"} =>
                 /\ Len(d.calls) = 1
                 /\ d.calls[1].sig = "SIGKILL"
                 /\ d.calls[1].pid = d.pid
            /\ d.ch \notin {"t", "T", "k", "K"} => d.calls = <<>>

\* the dialog was answered with K
C8_Witness ==
    /\ dialog # <<>>
    /\ dialog[1].ch = "K"
    /\ Len(dialog[1].calls) = 1
    /\ dialog[1].calls[1].sig = "SIGKILL"

\* C9: for a pid present in the previous and the current snapshot,
\* cpu_percent = 100 * d / total_delta, d the tick delta or 0 when the
\* counter went backward, and total_delta is the denominator of the system
\* CPU percent of the same cycle.
C9_ProcessPercentSharesTotalDelta ==
    [][RefreshStep =>
         /\ \A pid \in InBoth :
              LET cur  == cur_procs'[pid].total_time
                  prev == old_procs[pid].total_time
                  d    == IF cur >= prev THEN cur - prev ELSE 0
              IN  cur_procs'[pid].cpu_percent = Rat(100 * d, StepTotalDelta)
         /\ total_cpu_percent' =
                Rat(100 * (StepTotalDelta - StepIdleDelta), StepTotalDelta)]_vars

\* process delta 20 over total delta 100 (1000 -> 1100) gives 20
C9_Witness ==
    /\ screen.drawn
    /\ old_total_cpu = 1100
    /\ 1 \in DOMAIN cur_procs
    /\ cur_procs[1].total_time = 25
    /\ cur_procs[1].cpu_percent = Rat(20, 1)

\* C10: in every refresh cycle the system CPU percent is
\* 100 * (1 - idle_delta / total_delta), idle_delta the delta of idle plus
\* iowait, total_delta the delta of the sum of all categories (1 when that
\* is 0); when no counter decreased it lies within [0, 100].
C10_SystemPercentFormula ==
    [][RefreshStep =>
         /\ total_cpu_percent' =
                Rat(100 * (StepTotalDelta - StepIdleDelta), StepTotalDelta)
         /\ screen'.header.cpu = total_cpu_percent'
         /\ StepNonDecreasing =>
                /\ RatLeq(Zero, total_cpu_percent')
                /\ RatLeq(total_cpu_percent', Rat(100, 1))]_vars

\* total ticks 1000 -> 1100 with idle + wait delta 70 gives 30
C10_Witness ==
    /\ screen.drawn
    /\ old_cpu_fields = <<320, 0, 110, 560, 110>>
    /\ total_cpu_percent = Rat(30, 1)
    /\ screen.header.cpu = Rat(30, 1)

\* the pids of a rendered list
PidsOf(procs) == {procs[i].pid : i \in 1..Len(procs)}

\* C11: if /proc/stat is unreadable in a refresh cycle, the system CPU
\* percent shown for that cycle is the value it had after the previous
\* cycle, and the cycle still completes: the processes are sampled and
\* drawn and the loop goes on.  It is stated for the cycles that follow a
\* successful read, where no subtraction of the counters wraps.
C11_UnreadableStatKeepsCpuPercent ==
    [][(RefreshStep /\ ~stat_ok' /\ cur_cpu_fields # <<>>) =>
         /\ total_cpu_percent' = total_cpu_percent
         /\ screen'.header.cpu = total_cpu_percent
         /\ screen'.drawn
         /\ PidsOf(screen'.body.procs) = DOMAIN cur_procs'
         /\ running'
         /\ pc' = "input"]_vars

\* C12: a pid of the snapshot of one refresh cycle that is not in the
\* snapshot of the next is absent from the list that cycle renders and,
\* once it ends, from the previous and the current process map; a kill
\* command only ever targets a pid of the current process map, so none
\* targets that pid while it stays away.
C12_VanishedPidIsDropped ==
    [][/\ RefreshStep =>
            \A pid \in (DOMAIN old_procs \cup DOMAIN cur_procs) \ DOMAIN cur_procs' :
                /\ pid \notin PidsOf(screen'.body.procs)
                /\ pid \notin DOMAIN old_procs'
                /\ pid \notin DOMAIN cur_procs'
       /\ (pc = "input" /\ dialog' # <<>>) =>
            /\ dialog'[1].pid \in DOMAIN cur_procs
            /\ dialog'[1].pid \in DOMAIN old_procs
            /\ \A i \in 1..Len(dialog'[1].calls) :
                   dialog'[1].calls[i].pid = dialog'[1].pid]_vars

\* a refresh cycle has just dropped pid 2 and kept pid 1
C12_Witness ==
    /\ refreshed
    /\ gone = {2}
    /\ DOMAIN cur_procs = {1}
    /\ DOMAIN old_procs = {1}
    /\ PidsOf(Rendered) = {1}

\* entry a is placed before entry b by the order of the mode
OrderedPair(a, b, mode) ==
    CASE mode = "CPU" ->
            \/ RatLess(b.cpu_percent, a.cpu_percent)
            \/ a.cpu_percent = b.cpu_percent /\ a.pid < b.pid
      [] mode = "MEM" ->
            \/ RatLess(b.mem_percent, a.mem_percent)
            \/ a.mem_percent = b.mem_percent /\ a.pid < b.pid
      [] mode = "PID" -> a.pid < b.pid

\* C13: the list rendered by a refresh cycle has exactly one entry per pid
\* of the current snapshot, each carrying the rate and the memory share of
\* that pid, and is ordered by the active mode: CPU = descending cpu_percent,
\* MEM = descending mem_percent, both with ties by ascending pid, PID =
\* strictly ascending pid.  Such a list is unique, so building it again
\* from the same snapshot, rates and mode gives the same list.
C13_RenderedListIsSortedSnapshot ==
    [][RefreshStep =>
         LET list == screen'.body.procs
         IN  /\ Len(list) = Cardinality(DOMAIN cur_procs')
             /\ PidsOf(list) = DOMAIN cur_procs'
             /\ \A i \in 1..Len(list) :
                    /\ list[i].cpu_percent = cur_procs'[list[i].pid].cpu_percent
                    /\ list[i].mem_kb = cur_procs'[list[i].pid].mem_kb
                    /\ list[i].mem_percent =
                           MemPercent(list[i].mem_kb, mem_total_kb')
             /\ \A i, j \in 1..Len(list) :
                    i < j => OrderedPair(list[i], list[j], sort_mode)]_vars

\* a refresh cycle in CPU mode has drawn pid 2 (25 of 100 ticks, new) before
\* pid 1 (20 of 100 ticks)
C13_Witness ==
    /\ refreshed
    /\ screen.header.sort = "CPU"
    /\ Len(Rendered) = 2
    /\ Rendered[1].pid = 2
    /\ Rendered[2].pid = 1
    /\ Rendered[2].cpu_percent = Rat(20, 1)
    /\ Rendered[1].cpu_percent = Rat(25, 1)

\* C14: the loop starts in mode CPU; the toggle-sort event maps sort_mode
\* CPU -> MEM, MEM -> PID, PID -> CPU, so that two more toggles restore the
\* mode, and changes nothing else: selected, page_offset, the snapshots,
\* the refresh timer and the screen are as before.
C14_SortToggleCyclesModes ==
    [][/\ pc = "start" => sort_mode' = "CPU"
       /\ KeySort =>
            /\ sort_mode' = (CASE sort_mode = "CPU" -> "MEM"
                               [] sort_mode = "MEM" -> "PID"
                               [] sort_mode = "PID" -> "CPU")
            /\ NextSortMode(NextSortMode(sort_mode')) = sort_mode
            /\ selected' = selected
            /\ page_offset' = page_offset
            /\ old_procs' = old_procs
            /\ cur_procs' = cur_procs
            /\ old_cpu_fields' = old_cpu_fields
            /\ cur_cpu_fields' = cur_cpu_fields
            /\ old_total_cpu' = old_total_cpu
            /\ mem_total_kb' = mem_total_kb
            /\ total_cpu_percent' = total_cpu_percent
            /\ elapsed' = elapsed
            /\ refresh_sec' = refresh_sec
            /\ screen' = screen
            /\ dialog' = dialog
            /\ running']_vars

\* two toggles after a list of two entries was drawn in mode CPU: the mode
\* is PID, the selection still on index 1
C14_Witness ==
    /\ pc = "gate"
    /\ sort_mode = "PID"
    /\ screen.drawn
    /\ screen.header.sort = "CPU"
    /\ Len(Rendered) = 2
    /\ selected = 1

\* C15: a force-refresh event leaves the loop at the refresh gate with the
\* whole interval counted as elapsed, whatever time has passed and whatever
\* the interval is; from there the only step is a refresh cycle, so one is
\* executed before any further input event is consumed.
C15_ForcedRefreshRunsBeforeNextInput ==
    [][/\ KeyRefresh =>
            /\ pc' = "gate"
            /\ running'
            /\ elapsed' >= refresh_sec
       /\ (pc = "gate" /\ elapsed >= refresh_sec) =>
            /\ RefreshStep
            /\ pc' = "input"
            /\ screen'.drawn]_vars

\* 'r' was pressed after a first cycle, with the interval of 2 seconds: the
\* loop is at the gate, no dialog was shown, the interval counts as elapsed
C15_Witness ==
    /\ pc = "gate"
    /\ refresh_sec = 2
    /\ screen.drawn
    /\ dialog = <<>>
    /\ elapsed = refresh_sec

\* C16: the quit event ends the loop in the iteration that consumes it: no
\* refresh cycle, no dialog and no kill happen in it, the windows are
\* released and main returns 0; once the loop has ended no step of the
\* program follows.
C16_QuitEndsLoopAndReleases ==
    [][/\ KeyQuit =>
            /\ ~running'
            /\ pc' = "done"
            /\ ~refreshed'
            /\ dialog' = <<>>
            /\ windows' = {}
            /\ exit_code' = 0
       /\ exit_code' # -1 => (KeyQuit /\ exit_code' = 0)
       /\ ~running => FALSE
       /\ pc = "done" => FALSE]_vars

\* the program has ended after a refresh interval of 1 second was parsed
C16_Witness ==
    /\ pc = "done"
    /\ ~running
    /\ windows = {}
    /\ exit_code = 0
    /\ refresh_sec = 1

\* the characters of s are all digits
RECURSIVE AllDigits(_)
AllDigits(s) == s = <<>> \/ (IsDigit(Head(s)) /\ AllDigits(Tail(s)))

\* s without a leading sign
Unsigned(s) == IF s # <<>> /\ Head(s) \in {"-", "+"} THEN Tail(s) ELSE s

\* s is a decimal integer: an optional sign, then digits and nothing else
IsNumeric(s) == Unsigned(s) # <<>> /\ AllDigits(Unsigned(s))

\* s without its leading blanks, and without its leading zeros
RECURSIVE Strip(_, _)
Strip(s, c) == IF s # <<>> /\ Head(s) = c THEN Strip(Tail(s), c) ELSE s

\* the longest prefix of s made of digits
RECURSIVE LeadDigits(_)
LeadDigits(s) ==
    IF s # <<>> /\ IsDigit(Head(s)) THEN <<Head(s)>> \o LeadDigits(Tail(s)) ELSE <<>>

\* the number a string of at most nine digits writes
RECURSIVE Decimal(_)
Decimal(s) ==
    IF s = <<>> THEN 0
    ELSE 10 * Decimal(SubSeq(s, 1, Len(s) - 1)) + DigitVal[s[Len(s)]]

\* the digits ds, written without leading zeros, are a magnitude an int can
\* take: at most 2147483647, or 2147483648 behind a minus sign
FitsInt(ds, neg) ==
    \/ Len(ds) <= 9
    \/ /\ Len(ds) = 10
       /\ \/ Decimal(SubSeq(ds, 1, 9)) < 214748364
          \/ /\ Decimal(SubSeq(ds, 1, 9)) = 214748364
             /\ DigitVal[ds[10]] <= (IF neg THEN 8 ELSE 7)

\* C17 as claimed: the refresh interval is at least 1 and startup does not
\* fail; with no argument or a non-numeric argument the interval is 2, with
\* a numeric argument below 1 it is 1, with a numeric argument n >= 1 it is
\* n (computed for numbers of at most nine digits; a number of ten digits
\* or more is at least 1000000000).
C17_IntervalFromNumericArgument ==
    [][pc = "start" =>
         /\ pc' = "input"
         /\ refresh_sec' >= 1
         /\ (argv1 = <<>> \/ ~IsNumeric(argv1)) => refresh_sec' = 2
         /\ (IsNumeric(argv1) /\ Len(Unsigned(argv1)) <= 9) =>
                LET m == Decimal(Unsigned(argv1))
                    n == IF Head(argv1) = "-" THEN 0 - m ELSE m
                IN  refresh_sec' = IF n < 1 THEN 1 ELSE n
         /\ (/\ IsNumeric(argv1)
             /\ Head(argv1) # "-"
             /\ Len(Strip(Unsigned(argv1), "0")) >= 10) =>
                refresh_sec' >= 1000000000]_vars

\* C17, amended: the refresh interval is at least 1 and startup does not
\* fail.  With no argument the interval is 2.  Otherwise the argument is
\* read as blanks, an optional sign and the longest run of digits, what
\* follows being ignored: with no digit there, or a number that is not an
\* int, the interval is 2; with a number n below 1 it is 1; with a number
\* n >= 1 it is n.
C17_IntervalFromLeadingInteger ==
    [][pc = "start" =>
         LET body == Strip(argv1, " ")
             neg  == body # <<>> /\ Head(body) = "-"
             ds   == Strip(LeadDigits(Unsigned(body)), "0")
             m    == IF FitsInt(ds, FALSE) THEN Decimal(ds) ELSE IntMax
             n    == IF neg THEN 0 - m ELSE m
         IN  /\ pc' = "input"
             /\ running'
             /\ refresh_sec' >= 1
             /\ refresh_sec' =
                  IF argv1 = <<>> \/ LeadDigits(Unsigned(body)) = <<>> THEN 2
                  ELSE IF ~FitsInt(ds, neg) THEN 2
                  ELSE IF n < 1 THEN 1
                  ELSE n]_vars

\* startup has parsed "1x" and the loop begins with an interval of 1 second
C17_Witness ==
    /\ pc = "input"
    /\ argv1 = <<"1", "x">>
    /\ refresh_sec = 1
    /\ running

\* C18: an iteration of the loop handles at most one input event and then
\* evaluates the refresh gate (only quit leaves the loop instead); the
\* gate never waits: the iteration either runs a refresh cycle or returns
\* to the input with less than the interval elapsed, and when the interval
\* has elapsed it runs the refresh cycle, whatever input was handled.
C18_InputAndRefreshAlternate ==
    [][/\ pc = "input" =>
            \/ pc' = "gate" /\ running' /\ ~refreshed'
            \/ KeyQuit
       /\ pc = "gate" =>
            /\ pc' = "input"
            /\ running'
            /\ refreshed' \/ elapsed' < refresh_sec
            /\ elapsed >= refresh_sec => refreshed'
            /\ refreshed' => (screen'.drawn /\ elapsed' = 0)]_vars

\* the first iteration has handled 's' while the interval counts as
\* elapsed: the loop is at the gate, which is open
C18_Witness ==
    /\ pc = "gate"
    /\ sort_mode = "MEM"
    /\ ~screen.drawn
    /\ GateOpen(elapsed, refresh_sec)
    /\ running

\* C19: at the end of every refresh cycle the previous snapshot is the
\* snapshot sampled in that cycle: the previous process map is the current
\* one, and the previous cpu counters are the counters read from /proc/stat
\* in that same cycle, with their sum, never counters of an earlier cycle
\* next to the process map of this one; between refresh cycles no input
\* event modifies either snapshot.
C19_PreviousIsSnapshotOfCycle ==
    [][/\ RefreshStep =>
            /\ old_procs' = cur_procs'
            /\ stat_ok' \/ old_cpu_fields' = <<>>
            /\ old_cpu_fields' = cur_cpu_fields'
            /\ old_total_cpu' = SumOf(cur_cpu_fields') % UllMod
       /\ (pc = "input" /\ pc' = "gate") =>
            /\ old_procs' = old_procs
            /\ cur_procs' = cur_procs
            /\ old_cpu_fields' = old_cpu_fields
            /\ cur_cpu_fields' = cur_cpu_fields
            /\ old_total_cpu' = old_total_cpu]_vars

\* C20: kill is only ever called with a pid that is a key of the process
\* map of the snapshot sampled last; when selected is not an index of that
\* map (nothing sampled yet, no process, or the selection moved past the
\* end since the last refresh) the kill command shows no prompt, sends no
\* signal, forces no refresh and leaves the state as it was.
C20_KillOnlySampledPid ==
    [][KeyKill =>
         IF selected >= 0 /\ selected < Cardinality(DOMAIN cur_procs)
         THEN /\ Len(dialog') = 1
              /\ dialog'[1].pid \in DOMAIN cur_procs
              /\ \A i \in 1..Len(dialog'[1].calls) :
                     dialog'[1].calls[i].pid \in DOMAIN cur_procs
         ELSE /\ dialog' = <<>>
              /\ elapsed' = elapsed
              /\ sort_mode' = sort_mode
              /\ selected' = selected
              /\ page_offset' = page_offset
              /\ old_procs' = old_procs
              /\ cur_procs' = cur_procs
              /\ old_cpu_fields' = old_cpu_fields
              /\ cur_cpu_fields' = cur_cpu_fields
              /\ old_total_cpu' = old_total_cpu
              /\ mem_total_kb' = mem_total_kb
              /\ total_cpu_percent' = total_cpu_percent
              /\ screen' = screen
              /\ running']_vars

\* SIGKILL or SIGTERM was sent to pid 2, the second of the two sampled
\* processes
C20_Witness ==
    /\ pc = "gate"
    /\ DOMAIN cur_procs = {1, 2}
    /\ selected = 1
    /\ dialog # <<>>
    /\ dialog[1].calls # <<>>
    /\ dialog[1].calls[1].pid = 2

====
